---- MODULE Spec2Model ----
(***************************************************************************)
(* Model of the Redshift import plugin (src/index.ts): the lifecycle hooks *)
(* setupPlugin / teardownPlugin and the self-scheduling batch job          *)
(* importAndIngestEvents, together with the host collaborators they use    *)
(* (durable storage, the cache counter, the job scheduler, the source      *)
(* table and the event sink).                                              *)
(***************************************************************************)
EXTENDS Integers, Sequences, FiniteSets, Bags, TLC

VARIABLES
    config,      \* plugin configuration, fixed for a behaviour
    tableRows,   \* current number of rows of the source table
    storage,     \* durable store: import_offset, total_rows_snapshot
    cache,       \* cache value under REDIS_OFFSET_KEY (the fast counter)
    global,      \* global.totalRows, global.initialOffset
    phase,       \* "down" | "up" | "failed" (setupPlugin threw)
    queue,       \* bag of jobs handed to the host scheduler, not yet started
    running,     \* bag of invocations between cache.incr and executeQuery
    last,        \* what the most recently finished invocation did
    lastSetup,   \* what the most recent setupPlugin call did
    hist         \* history (bookkeeping for the properties): setups and host
                 \* triggers so far, the row count of the first COUNT query
                 \* that succeeded and, for the current process lifetime,
                 \* the offsets fetched with success, the first offset
                 \* allocated, the offsets allocated in the order of the
                 \* increments, the rows handed to the sink, whether a job
                 \* ended 'Done', whether a fetch failed and whether a job threw, the host started a
                 \* job, the host started a job with an offset

vars == <<config, tableRows, storage, cache, global, phase, queue, running,
          last, lastSetup, hist>>

----------------------------------------------------------------------------
(* Program constants *)

EVENTS_PER_BATCH == 10
RETRY_CEILING == 15
SETUP_DELAY == 10
BACKOFF_BASE == 3

\* null / undefined / absent key (JavaScript), kept apart from every number
NULL == -1

(* Bounds of the model *)

MaxRows == 25        \* the source table never grows beyond this
MaxSetups == 2       \* calls of setupPlugin in one behaviour
MaxTriggers == 1     \* jobs the host starts besides the plugin's own chain

GrowSteps == {10, 25}

Mechanisms == {"Import continuously", "Only import historical data"}

Configs ==
    [importMechanism : Mechanisms,
     transformationKnown : BOOLEAN,   \* transformationName is a registry key
     requiredPresent : BOOLEAN,       \* all requiredConfigOptions are in config
     hostValid : BOOLEAN]             \* clusterHost ends in redshift.amazonaws.com

----------------------------------------------------------------------------
(* Pure helpers, as the code computes them *)

\* JavaScript truthiness of a number | null | undefined
Truthy(v) == v # NULL /\ v # 0

Min(a, b) == IF a < b THEN a ELSE b

Range(f) == {f[i] : i \in 1..Len(f)}

RECURSIVE Pow2(_)
Pow2(k) == IF k <= 0 THEN 1 ELSE 2 * Pow2(k - 1)

\* Math.floor(initialOffset / EVENTS_PER_BATCH)
SeedCounter(initialOffset) == initialOffset \div EVENTS_PER_BATCH

\* global.initialOffset + (redisIncrementedOffset - 1) * EVENTS_PER_BATCH
AllocatedOffsetOffByOne(initialOffset, incremented) ==
    initialOffset + incremented * EVENTS_PER_BATCH

AllocatedOffset(initialOffset, incremented) ==
    initialOffset + (incremented - 1) * EVENTS_PER_BATCH

\* cache.incr(REDIS_OFFSET_KEY): the value the atomic increment returns and
\* leaves in the cache
IncrLost(value) == IF value = NULL THEN 0 ELSE value

Incr(value) == (IF value = NULL THEN 0 ELSE value) + 1

\* payload.offset && payload.retriesPerformedSoFar >= 15
ShouldAbandon(payload) ==
    Truthy(payload.offset) /\ payload.retriesPerformedSoFar >= RETRY_CEILING

\* offset > global.totalRows
IsDone(offset, totalRows) == offset > totalRows

\* 2 ** payload.retriesPerformedSoFar * 3
NextRetrySecondsLinear(retries) == 2 * retries * BACKOFF_BASE

NextRetrySeconds(retries) == Pow2(retries) * BACKOFF_BASE

\* { ...payload, retriesPerformedSoFar: payload.retriesPerformedSoFar + 1 }
RetryPayload(payload) ==
    [payload EXCEPT !.retriesPerformedSoFar = @ + 1]

Job(payload, delay) ==
    [offset |-> payload.offset,
     retriesPerformedSoFar |-> payload.retriesPerformedSoFar,
     delay |-> delay]

FreshPayload == [offset |-> NULL, retriesPerformedSoFar |-> 0]

\* payloads the host may hand to the exported job: a duplicate of the
\* plugin's own trigger, and retries of offsets 0 and EVENTS_PER_BATCH just
\* below and at the retry ceiling
HostPayloads ==
    {FreshPayload} \cup
    [offset : {0, EVENTS_PER_BATCH},
     retriesPerformedSoFar : {RETRY_CEILING - 1, RETRY_CEILING}]

\* workerOffset > global.totalRows ? global.totalRows : workerOffset
OffsetToStoreUnclamped(redisOffset, totalRows) ==
    redisOffset * EVENTS_PER_BATCH

OffsetToStore(redisOffset, totalRows) ==
    LET workerOffset == redisOffset * EVENTS_PER_BATCH
    IN  IF workerOffset > totalRows THEN totalRows ELSE workerOffset

\* rows returned by SELECT ... OFFSET offset LIMIT EVENTS_PER_BATCH
RowCount(offset, rows) ==
    IF offset >= rows THEN 0 ELSE Min(EVENTS_PER_BATCH, rows - offset)

NoInvocation ==
    [payload |-> FreshPayload, offset |-> NULL, allocated |-> FALSE,
     outcome |-> "NONE", threw |-> FALSE, scheduled |-> <<>>,
     queried |-> FALSE, fetchedRows |-> 0, transformed |-> 0,
     delivered |-> <<>>, rowsAtCheck |-> NULL, executeQuery |-> "notCalled"]

NoSetup == [threw |-> FALSE, fault |-> "never", scheduled |-> <<>>]

----------------------------------------------------------------------------
Init ==
    /\ config \in Configs
    /\ tableRows = 0
    /\ storage = [import_offset |-> NULL, total_rows_snapshot |-> NULL]
    /\ cache = NULL
    /\ global = [totalRows |-> NULL, initialOffset |-> NULL]
    /\ phase = "down"
    /\ queue = EmptyBag
    /\ running = EmptyBag
    /\ last = NoInvocation
    /\ lastSetup = NoSetup
    /\ hist = [setups |-> 0, triggers |-> 0, firstCount |-> NULL,
               fetched |-> <<>>, firstAlloc |-> NULL, allocs |-> <<>>,
               delivered |-> {}, done |-> FALSE, fetchFailed |-> FALSE,
               threw |-> FALSE, hosted |-> FALSE, pinned |-> FALSE]

----------------------------------------------------------------------------
(* setupPlugin *)

SetupFaults == {"none", "connect", "query", "cacheSet"}

\* the first throw setupPlugin reaches, in the order of the code
SetupFault(cfg, fault) ==
    IF ~cfg.requiredPresent THEN "missingOption"
    ELSE IF ~cfg.hostValid THEN "badHost"
    ELSE fault

\* global.totalRows once the snapshot branch has run
CeilingAfterSetup(cfg, count, snapshot) ==
    IF cfg.importMechanism = "Only import historical data" /\ Truthy(snapshot)
    THEN snapshot
    ELSE count

\* storage's total_rows_snapshot once the snapshot branch has run
SnapshotAfterSetup(cfg, count, snapshot) ==
    IF cfg.importMechanism = "Only import historical data" /\ ~Truthy(snapshot)
    THEN count
    ELSE snapshot

\* storage.get(REDIS_OFFSET_KEY, 0) and cache.get(REDIS_OFFSET_KEY, 0)
GetOrZero(v) == IF v = NULL THEN 0 ELSE v

\* jobs handed to the scheduler by a setupPlugin call that ends with `fault`
ScheduledBySetupBeforeSeeding(fault) ==
    IF fault \in {"none", "cacheSet"}
    THEN <<Job(FreshPayload, SETUP_DELAY)>>
    ELSE <<>>

ScheduledBySetup(fault) ==
    IF fault = "none" THEN <<Job(FreshPayload, SETUP_DELAY)>> ELSE <<>>

RECURSIVE SeqToBag(_)
SeqToBag(s) ==
    IF s = <<>> THEN EmptyBag ELSE SetToBag({Head(s)}) (+) SeqToBag(Tail(s))

Setup(fault) ==
    /\ phase \in {"down", "failed"}
    /\ hist.setups < MaxSetups
    /\ LET f == SetupFault(config, fault)
           counted == f \in {"none", "cacheSet"}
           count == tableRows
           initialOffset == GetOrZero(storage.import_offset)
           sched == ScheduledBySetup(f)
       IN  /\ phase' = IF f = "none" THEN "up" ELSE "failed"
           /\ lastSetup' = [threw |-> f # "none", fault |-> f, scheduled |-> sched]
           /\ queue' = queue (+) SeqToBag(sched)
           /\ global' = IF counted
                        THEN [totalRows |-> CeilingAfterSetup(config, count,
                                                storage.total_rows_snapshot),
                              initialOffset |-> initialOffset]
                        ELSE global
           /\ storage' = IF counted
                         THEN [storage EXCEPT !.total_rows_snapshot =
                                  SnapshotAfterSetup(config, count, @)]
                         ELSE storage
           /\ cache' = IF f = "none" THEN SeedCounter(initialOffset) ELSE cache
           /\ hist' = [hist EXCEPT
                         !.setups = @ + 1,
                         !.firstCount = IF counted /\ @ = NULL THEN count ELSE @]
    /\ UNCHANGED <<config, tableRows, running, last>>

(* teardownPlugin; the process ends with it: the host scheduler keeps no
   job and the in-memory global is gone, storage and cache stay *)
Teardown ==
    /\ phase = "up"
    /\ storage' = [storage EXCEPT !.import_offset =
                      OffsetToStore(GetOrZero(cache), global.totalRows)]
    /\ phase' = "down"
    /\ queue' = EmptyBag
    /\ running' = EmptyBag
    /\ global' = [totalRows |-> NULL, initialOffset |-> NULL]
    /\ last' = NoInvocation
    /\ hist' = [hist EXCEPT !.fetched = <<>>, !.firstAlloc = NULL,
                            !.allocs = <<>>, !.delivered = {},
                            !.done = FALSE, !.fetchFailed = FALSE,
                            !.threw = FALSE, !.hosted = FALSE, !.pinned = FALSE]
    /\ UNCHANGED <<config, tableRows, cache, lastSetup>>

(* the source table is append-only *)
AppendRows(n) ==
    /\ tableRows + n <= MaxRows
    /\ tableRows' = tableRows + n
    /\ UNCHANGED <<config, storage, cache, global, phase, queue, running,
                   last, lastSetup, hist>>

(* the host runs the exported job with a payload of its own *)
HostRunJob(payload) ==
    /\ phase = "up"
    /\ hist.triggers < MaxTriggers
    /\ queue' = queue (+) SetToBag({Job(payload, 0)})
    /\ hist' = [hist EXCEPT !.triggers = @ + 1, !.hosted = TRUE,
                            !.pinned = @ \/ payload.offset # NULL]
    /\ UNCHANGED <<config, tableRows, storage, cache, global, phase, running,
                   last, lastSetup>>

----------------------------------------------------------------------------
(* importAndIngestEvents, up to the await of executeQuery *)

PayloadOf(job) ==
    [offset |-> job.offset, retriesPerformedSoFar |-> job.retriesPerformedSoFar]

Begin(job) ==
    /\ phase = "up"
    /\ BagIn(job, queue)
    /\ queue' = queue (-) SetToBag({job})
    /\ LET payload == PayloadOf(job)
           alloc == ~Truthy(payload.offset)
           incremented == Incr(cache)
           offset == IF alloc
                     THEN AllocatedOffset(global.initialOffset, incremented)
                     ELSE payload.offset
       IN  IF ShouldAbandon(payload)
           THEN /\ last' = [NoInvocation EXCEPT !.payload = payload,
                                                !.outcome = "ABANDONED"]
                /\ UNCHANGED <<cache, running, hist>>
           ELSE /\ cache' = IF alloc THEN incremented ELSE cache
                /\ hist' = [hist EXCEPT
                               !.firstAlloc = IF alloc /\ @ = NULL THEN offset ELSE @,
                               !.allocs = IF alloc THEN Append(@, offset) ELSE @,
                               !.done = @ \/ IsDone(offset, global.totalRows)]
                /\ IF IsDone(offset, global.totalRows)
                   THEN /\ last' = [NoInvocation EXCEPT
                                       !.payload = payload,
                                       !.offset = offset,
                                       !.allocated = alloc,
                                       !.outcome = "DONE",
                                       !.rowsAtCheck = tableRows]
                        /\ UNCHANGED running
                   ELSE /\ running' = running (+) SetToBag({
                               [payload |-> payload, offset |-> offset,
                                allocated |-> alloc]})
                        /\ UNCHANGED last
    /\ UNCHANGED <<config, tableRows, storage, global, phase, lastSetup>>

(* importAndIngestEvents from executeQuery to its end *)

QueryResults == {"ok", "queryError", "connectError"}

\* jobs scheduled by the branch taken when the fetch query returned an error
ScheduledOnFetchErrorAndContinue(payload) ==
    <<Job(RetryPayload(payload), NextRetrySeconds(payload.retriesPerformedSoFar)),
      Job(FreshPayload, 0)>>

ScheduledOnFetchError(payload) ==
    <<Job(RetryPayload(payload), NextRetrySeconds(payload.retriesPerformedSoFar))>>

\* row indexes handed to posthog.capture, in order
Delivered(offset, n) == [i \in 1..n |-> offset + i - 1]

\* row indexes handed to posthog.capture when the transform of a row threw
\* after `transformed` rows: the capture loop comes after the transform loop
DeliveredUpToFailure(offset, transformed) == Delivered(offset, transformed)

DeliveredOnTransformError(offset, transformed) == <<>>

\* jobs scheduled at the end of an invocation that delivered its batch
ScheduledOnSuccessKeepingPayload(payload) == <<Job(payload, 0)>>

ScheduledOnSuccessNothing(payload) == <<>>

ScheduledOnSuccess(payload) == <<Job(FreshPayload, 0)>>

Complete(inv, result, failAt) ==
    /\ phase = "up"
    /\ BagIn(inv, running)
    /\ running' = running (-) SetToBag({inv})
    /\ LET n == RowCount(inv.offset, tableRows)
           base == [NoInvocation EXCEPT !.payload = inv.payload,
                                        !.offset = inv.offset,
                                        !.allocated = inv.allocated,
                                        !.rowsAtCheck = tableRows,
                                        !.executeQuery = "returned"]
           \* first row whose transform throws (0: none)
           bad == IF n > 0 /\ ~config.transformationKnown THEN 1 ELSE failAt
       IN  /\ failAt \in {0, 1, n} \cap (0..n)
           /\ result # "ok" => failAt = 0
           /\ last' =
                CASE result = "connectError" ->
                       [base EXCEPT !.outcome = "FETCHING", !.threw = TRUE,
                                    !.executeQuery = "threw"]
                  [] result = "queryError" ->
                       [base EXCEPT !.outcome = "RETRYING", !.threw = TRUE,
                                    !.queried = TRUE,
                                    !.scheduled = ScheduledOnFetchError(inv.payload)]
                  [] result = "ok" /\ bad > 0 ->
                       [base EXCEPT !.outcome = "TRANSFORMING", !.threw = TRUE,
                                    !.queried = TRUE, !.fetchedRows = n,
                                    !.transformed = bad - 1,
                                    !.delivered =
                                       DeliveredOnTransformError(inv.offset, bad - 1)]
                  [] OTHER ->
                       [base EXCEPT !.outcome = "RESCHEDULING",
                                    !.queried = TRUE, !.fetchedRows = n,
                                    !.transformed = n,
                                    !.delivered = Delivered(inv.offset, n),
                                    !.scheduled = ScheduledOnSuccess(inv.payload)]
           /\ queue' = queue (+) SeqToBag(last'.scheduled)
           /\ hist' = [hist EXCEPT
                         !.fetched = IF result = "ok" THEN Append(@, inv.offset) ELSE @,
                         !.delivered = @ \cup Range(last'.delivered),
                         !.fetchFailed = @ \/ result # "ok",
                         !.threw = @ \/ last'.threw]
    /\ UNCHANGED <<config, tableRows, storage, cache, global, phase, lastSetup>>

----------------------------------------------------------------------------
Next ==
    \/ \E fault \in SetupFaults : Setup(fault)
    \/ Teardown
    \/ \E n \in GrowSteps : AppendRows(n)
    \/ \E payload \in HostPayloads : HostRunJob(payload)
    \/ \E job \in BagToSet(queue) : Begin(job)
    \/ \E inv \in BagToSet(running), result \in QueryResults, failAt \in 0..EVENTS_PER_BATCH :
          Complete(inv, result, failAt)

Spec == Init /\ [][Next]_vars

(* The plugin's own job chain: no job is started by the host besides the one
   setupPlugin schedules. The host scheduler runs every job it was handed
   (runIn, runNow) and every awaited executeQuery settles. *)
BeginSome == \E job \in BagToSet(queue) : Begin(job)

CompleteSome ==
    \E inv \in BagToSet(running), result \in QueryResults, failAt \in 0..EVENTS_PER_BATCH :
        Complete(inv, result, failAt)

NextChain ==
    \/ \E fault \in SetupFaults : Setup(fault)
    \/ Teardown
    \/ \E n \in GrowSteps : AppendRows(n)
    \/ BeginSome
    \/ CompleteSome

SpecChain ==
    Init /\ [][NextChain]_vars /\ WF_vars(BeginSome) /\ WF_vars(CompleteSome)

----------------------------------------------------------------------------
(* Properties *)

Historical == config.importMechanism = "Only import historical data"
Continuous == config.importMechanism = "Import continuously"

Finished == last.outcome # "NONE"

\* a process lifetime in which only the plugin's own job chain ran, no job
\* threw and no durable offset had been stored before startup
FreshCleanChain ==
    /\ phase = "up"
    /\ storage.import_offset = NULL
    /\ ~hist.threw
    /\ ~hist.hosted

\* C1: in a lifetime where only fresh-allocation jobs ran and none failed,
\* once no fetch is in flight the N offsets fetched are, without repetition,
\* exactly initialOffset, initialOffset + batchSize, ...,
\* initialOffset + (N-1)*batchSize, whatever durable offset was loaded
C1_FetchedRangesExact ==
    (phase = "up" /\ running = EmptyBag /\ ~hist.pinned /\ ~hist.threw) =>
        /\ Cardinality(Range(hist.fetched)) = Len(hist.fetched)
        /\ Range(hist.fetched) =
             {global.initialOffset + k * EVENTS_PER_BATCH :
                 k \in 0..(Len(hist.fetched) - 1)}

\* C2: after a restart, the first offset a fresh allocation obtains is the
\* offset X that teardownPlugin had stored
C2_RestartResumesAtStoredOffset ==
    (phase = "up" /\ storage.import_offset # NULL /\ hist.firstAlloc # NULL) =>
        hist.firstAlloc = storage.import_offset

\* C3: an invocation whose payload carries an offset (0 included), below the
\* retry ceiling, queries exactly that offset and does not increment the
\* counter
PinnedKeepsOffset(payload, offset, allocated) ==
    (payload.offset # NULL /\ payload.retriesPerformedSoFar < RETRY_CEILING) =>
        (offset = payload.offset /\ ~allocated)

C3_RetryKeepsOffset ==
    /\ \A inv \in BagToSet(running) :
          PinnedKeepsOffset(inv.payload, inv.offset, inv.allocated)
    /\ (Finished /\ last.outcome # "ABANDONED") =>
          PinnedKeepsOffset(last.payload, last.offset, last.allocated)

\* C4: an invocation whose payload carries an offset (0 included) and
\* retriesPerformedSoFar >= 15 schedules no job
C4_RetryCeilingSchedulesNothing ==
    (Finished /\ last.payload.offset # NULL
              /\ last.payload.retriesPerformedSoFar >= RETRY_CEILING) =>
        last.scheduled = <<>>

\* C5: a fetch failure of an invocation with retriesPerformedSoFar = k
\* schedules exactly one job, the same payload with k + 1, delayed by
\* 3 * 2^k seconds: 3, 6, 12, 24, ... for k = 0, 1, 2, 3, ...
C5_BackoffDelay ==
    last.outcome = "RETRYING" =>
        LET k == last.payload.retriesPerformedSoFar
        IN  /\ Len(last.scheduled) = 1
            /\ last.scheduled[1].retriesPerformedSoFar = k + 1
            /\ last.scheduled[1].offset = last.payload.offset
            /\ last.scheduled[1].delay = 3 * (2 ^ k)
            /\ k = 0 => last.scheduled[1].delay = 3
            /\ k = 1 => last.scheduled[1].delay = 6
            /\ k = 2 => last.scheduled[1].delay = 12
            /\ k = 14 => last.scheduled[1].delay = 49152

\* the third failure in a row of the plugin's own chain is scheduled 12 s out
C5_Witness ==
    /\ last.outcome = "RETRYING"
    /\ last.payload.retriesPerformedSoFar = 2
    /\ last.scheduled[1].delay = 12
    /\ ~hist.hosted

\* C6: in historical mode the ceiling of every running lifetime is the row
\* count of the first startup that counted the table, an empty table included
C6_HistoricalCeilingFixed ==
    (Historical /\ phase = "up") => global.totalRows = hist.firstCount

\* C7: in continuous mode a job of the plugin's own chain declares the import
\* done only when the source table, at its size of that moment, has no row
\* at or beyond the job's offset: rows appended after startup are not left
\* behind
C7_ContinuousChecksCurrentSize ==
    (Continuous /\ ~hist.hosted /\ last.outcome = "DONE") =>
        last.offset >= last.rowsAtCheck

\* C8: on a fresh start with every query and transform succeeding and only
\* the plugin's own chain, the offsets fetched are 0, 10, 20, ... in that
\* order, a finished batch schedules exactly the next fresh run, at most one
\* job exists, and the job that stops is the first whose offset exceeds the
\* ceiling: it queries nothing and schedules nothing (25 rows: 0, 10, 20,
\* stop at 30)
C8_FreshStartScenario ==
    FreshCleanChain =>
        /\ \A i \in 1..Len(hist.fetched) :
              hist.fetched[i] = (i - 1) * EVENTS_PER_BATCH
        /\ \A i \in 1..Len(hist.fetched) : hist.fetched[i] <= global.totalRows
        /\ last.outcome \in {"NONE", "RESCHEDULING", "DONE"}
        /\ BagCardinality(queue) + BagCardinality(running) <= 1
        /\ last.outcome = "RESCHEDULING" =>
              /\ last.scheduled = <<Job(FreshPayload, 0)>>
              /\ last.offset = hist.fetched[Len(hist.fetched)]
        /\ last.outcome = "DONE" =>
              /\ last.offset > global.totalRows
              /\ last.offset = Len(hist.fetched) * EVENTS_PER_BATCH
              /\ ~last.queried
              /\ last.scheduled = <<>>
              /\ queue = EmptyBag /\ running = EmptyBag
        /\ (last.outcome = "DONE" /\ global.totalRows = 25) =>
              (hist.fetched = <<0, 10, 20>> /\ last.offset = 30)

C8_Witness ==
    /\ FreshCleanChain
    /\ global.totalRows = 25
    /\ last.outcome = "DONE"
    /\ last.offset = 30
    /\ hist.fetched = <<0, 10, 20>>

\* C9: every finished invocation ended in RESCHEDULING, RETRYING, DONE or
\* ABANDONED, and no exception left importAndIngestEvents
C9_NoExceptionEscapes ==
    Finished =>
        /\ ~last.threw
        /\ last.outcome \in {"RESCHEDULING", "RETRYING", "DONE", "ABANDONED"}

\* C10: a setupPlugin call that hits one of its fatal reasons throws and has
\* scheduled no job: none is pending or running afterwards
C10_FatalStartupSchedulesNothing ==
    /\ (lastSetup.fault \notin {"never", "none"}) <=> lastSetup.threw
    /\ (phase = "failed") <=> lastSetup.threw
    /\ lastSetup.threw =>
          /\ lastSetup.scheduled = <<>>
          /\ queue = EmptyBag
          /\ running = EmptyBag

\* the seeding write fails after the count and the snapshot were taken
C10_Witness ==
    /\ lastSetup.threw
    /\ lastSetup.fault = "cacheSet"
    /\ global.totalRows = 25
    /\ queue = EmptyBag

\* C11: within one process lifetime the offsets obtained by cache.incr are
\* strictly increasing in the order of the increments, so no two invocations,
\* running at the same time or not, obtain the same offset
C11_AllocationUnique ==
    /\ \A i, j \in 1..Len(hist.allocs) :
          i < j => hist.allocs[i] < hist.allocs[j]
    /\ \A inv \in BagToSet(running) :
          inv.allocated =>
             /\ CopiesIn(inv, running) = 1
             /\ inv.offset \in Range(hist.allocs)
    /\ \A a, b \in BagToSet(running) :
          (a.allocated /\ b.allocated /\ a # b) => a.offset # b.offset

\* two fresh-allocation invocations are in flight at the same time
C11_Witness ==
    /\ \E a, b \in BagToSet(running) :
          /\ a # b
          /\ a.allocated /\ b.allocated
          /\ a.payload.offset = NULL /\ b.payload.offset = NULL
    /\ Len(hist.allocs) >= 3

\* C12: whenever teardownPlugin stores an offset X, every row with index in
\* [initialOffset, X) has been handed to the sink in that process lifetime
C12_StoredOffsetIsDelivered ==
    [][(phase = "up" /\ phase' = "down") =>
          \A row \in global.initialOffset .. (storage'.import_offset - 1) :
              row \in hist.delivered]_vars

\* C13: every teardownPlugin stores min(counter * batchSize, rowCeiling), so
\* the stored offset never exceeds the ceiling of the lifetime that ends
C13_ShutdownClamp ==
    [][(phase = "up" /\ phase' = "down") =>
          /\ storage'.import_offset <= global.totalRows
          /\ storage'.import_offset <= cache * EVENTS_PER_BATCH
          /\ storage'.import_offset \in {global.totalRows, cache * EVENTS_PER_BATCH}]_vars

\* a shutdown after the counter ran past the ceiling: 3 * 10 > 25, 25 stored
C13_Witness ==
    /\ phase = "down"
    /\ cache = 3
    /\ storage.import_offset = 25

\* C14: an invocation whose fetch query returned an error schedules exactly
\* one job, carrying the offset that was queried and retriesPerformedSoFar
\* + 1, transforms no row, hands no event to the sink and schedules no
\* fresh-allocation continuation
C14_FetchFailureTerminal ==
    last.outcome = "RETRYING" =>
        /\ Len(last.scheduled) = 1
        /\ last.scheduled[1].offset = last.offset
        /\ last.scheduled[1].retriesPerformedSoFar =
              last.payload.retriesPerformedSoFar + 1
        /\ last.transformed = 0
        /\ last.delivered = <<>>

\* C15: an invocation whose fetch succeeded and whose transformationName is
\* not a registry key, or one of whose rows failed to transform, schedules
\* neither a retry nor a continuation
C15_FatalBatchErrorNotRetried ==
    /\ last.outcome = "TRANSFORMING" => last.scheduled = <<>>
    /\ (~config.transformationKnown /\ last.queried
           /\ last.outcome \in {"TRANSFORMING", "RESCHEDULING"}) =>
          last.scheduled = <<>>

\* C16: executeQuery never throws, on a connection failure as on a statement
\* failure, so a job that called it and got no rows back schedules a retry
C16_ExecuteQueryNeverThrows ==
    Finished =>
        /\ last.executeQuery # "threw"
        /\ last.outcome \in {"FETCHING", "RETRYING"} => Len(last.scheduled) = 1

\* C17: an invocation whose fetch, transforms and deliveries all succeed
\* (whatever the number of rows, 0 included, and whatever its own retry
\* count) schedules exactly one job, to run now, with no offset and
\* retriesPerformedSoFar = 0
C17_ContinuationAfterSuccess ==
    /\ (Finished /\ last.queried /\ ~last.threw) => last.outcome = "RESCHEDULING"
    /\ last.outcome = "RESCHEDULING" =>
          /\ Len(last.delivered) = last.fetchedRows
          /\ Len(last.scheduled) = 1
          /\ last.scheduled[1].offset = NULL
          /\ last.scheduled[1].retriesPerformedSoFar = 0
          /\ last.scheduled[1].delay = 0

\* a retry that succeeds on an empty batch
C17_Witness ==
    /\ last.outcome = "RESCHEDULING"
    /\ last.payload.retriesPerformedSoFar > 0
    /\ last.fetchedRows = 0

\* C20: within one invocation no event reaches the sink unless every fetched
\* row was transformed: if the transform of a row fails, nothing of the batch
\* is delivered; if all succeed, the rows are delivered once each, in the
\* order fetched
C20_AllOrNothingDelivery ==
    /\ last.delivered # <<>> => last.transformed = last.fetchedRows
    /\ last.outcome = "TRANSFORMING" =>
          /\ last.transformed < last.fetchedRows
          /\ last.delivered = <<>>
    /\ last.outcome = "RESCHEDULING" =>
          /\ last.transformed = last.fetchedRows
          /\ Len(last.delivered) = last.fetchedRows
          /\ \A i \in 1..Len(last.delivered) :
                last.delivered[i] = last.offset + i - 1

\* the last row of a full batch fails after nine rows were transformed
C20_Witness ==
    /\ last.outcome = "TRANSFORMING"
    /\ last.fetchedRows = EVENTS_PER_BATCH
    /\ last.transformed = EVENTS_PER_BATCH - 1
    /\ last.delivered = <<>>

Idle == queue = EmptyBag /\ running = EmptyBag

\* C19: with only the job setupPlugin schedules, every invocation schedules
\* at most one successor, so at most one job is pending or running
C19_SingleJobChain ==
    /\ Len(last.scheduled) <= 1
    /\ Len(lastSetup.scheduled) <= 1
    /\ BagCardinality(queue) + BagCardinality(running) <= 1

\* the fetch-failure path: the retry is the only job there is
C19_Witness ==
    /\ last.outcome = "RETRYING"
    /\ BagCardinality(queue) = 1
    /\ running = EmptyBag

\* C18 as stated: in a lifetime in which no fetch query failed, the chain
\* does not stop before a job has ended 'Done' (once no job is pending or
\* running, none will ever run again in that lifetime)
C18_FetchSuccessReachesDone ==
    (phase = "up" /\ ~hist.fetchFailed /\ Idle) => hist.done

\* C18 amended: unless a job throws (a fetch or a transformation fails) or
\* the process is shut down, a started import eventually has a job end
\* 'Done'; from then on no job is pending or running in that lifetime
C18_Termination ==
    /\ [](hist.done => Idle)
    /\ (phase = "up") ~> (hist.done \/ hist.threw \/ phase # "up")

\* the import of 25 rows ran to its end
C18_Witness ==
    /\ phase = "up"
    /\ hist.done
    /\ ~hist.threw
    /\ hist.fetched = <<0, 10, 20>>
    /\ Idle

====
